---- MODULE Spec2Model ----
(***************************************************************************)
(* Model of src/src/io/spreadsheet_processor.py (class                     *)
(* SpreadsheetProcessor): the text wrapper split_string, the gazetteer     *)
(* lookup extract_state, the elimination heuristic extract_city and the    *)
(* pipeline process_file.                                                  *)
(*                                                                         *)
(* A Python str is a sequence of one-character strings.  None / NaN is the *)
(* one-element sequence <<"None">>, which is no str because "None" is not  *)
(* a character.                                                            *)
(***************************************************************************)
EXTENDS Integers, Sequences, FiniteSets, TLC

VARIABLES
    pc,         \* "idle": arguments chosen, call not made; "done": returned
    text,       \* split_string: argument text
    separator,  \* split_string: argument separator
    max_len,    \* split_string: argument max_len
    parts,      \* split_string: the returned list of chunks
    address,    \* extract_state: argument address
    state,      \* extract_state: the returned name, or None
    row,        \* extract_city: argument row, column name -> value
    city,       \* extract_city: [exc, val], the exception raised or the value returned
    loaded,     \* process_file: the table as the caller loaded it
    df,         \* process_file: the caller's table, column name -> values by row
    ret         \* process_file: [exc, val], the exception raised or the table returned

vars == <<pc, text, separator, max_len, parts, address, state, row, city, loaded, df, ret>>

None == <<"None">>

(***************************************************************************)
(* Bounds of the model.                                                    *)
(***************************************************************************)
MaxTextLen == 6
MaxMaxLen == 4
MaxPieces == 2
MaxAddrLen == 4
MaxPartLen == 2
MaxRows == 2

\* All sequences over S of length at most n.
RECURSIVE SeqsUpTo(_, _)
SeqsUpTo(S, n) ==
    IF n = 0 THEN {<<>>}
    ELSE LET shorter == SeqsUpTo(S, n - 1)
         IN  shorter \cup {Append(s, c) : s \in {t \in shorter : Len(t) = n - 1}, c \in S}

\* F(v), with v evaluated once, before F is applied to it.
Apply(v, F(_)) == CHOOSE y \in {F(x) : x \in {v}} : TRUE

(***************************************************************************)
(* split_string (lines 24-41).                                             *)
(***************************************************************************)

\* text.split(separator) for a one-character separator: every separator
\* ends a token, so leading, trailing and repeated separators give empty
\* tokens, and the empty text gives the one token "".
RECURSIVE SplitFrom(_, _, _, _, _)
SplitFrom(s, sep, i, cur, acc) ==
    IF i > Len(s) THEN Append(acc, cur)
    ELSE IF s[i] = sep THEN SplitFrom(s, sep, i + 1, <<>>, Append(acc, cur))
    ELSE SplitFrom(s, sep, i + 1, Append(cur, s[i]), acc)

Split(s, sep) ==
    LET from(x) == SplitFrom(x, sep, 1, <<>>, <<>>)
    IN  Apply(s, from)

\* Mutant of exceeds_limit: the joining space is not counted.
exceeds_limit_no_space(current, word, limit) ==
    Len(current) + Len(word) > limit

\* Line 31: len(current) + len(word) + (1 if current else 0) > max_len
exceeds_limit(current, word, limit) ==
    Len(current) + Len(word) + (IF current # <<>> THEN 1 ELSE 0) > limit

\* Mutant of split_step: the word that overflows the chunk is dropped.
split_step_drop(st, word, limit) ==
    IF exceeds_limit(st.current, word, limit)
    THEN [parts |-> Append(st.parts, st.current), current |-> <<>>]
    ELSE [parts |-> st.parts,
          current |-> IF st.current = <<>> THEN word
                      ELSE st.current \o <<" ">> \o word]

\* Lines 31-35: one iteration of the loop over the words.
split_step(st, word, limit) ==
    IF exceeds_limit(st.current, word, limit)
    THEN [parts |-> Append(st.parts, st.current), current |-> word]
    ELSE [parts |-> st.parts,
          current |-> IF st.current = <<>> THEN word
                      ELSE st.current \o <<" ">> \o word]

\* Lines 29-35: the loop, from word i on.
RECURSIVE split_loop(_, _, _, _)
split_loop(words, i, st, limit) ==
    IF i > Len(words) THEN st
    ELSE LET rest(next) == split_loop(words, i + 1, next, limit)
         IN  Apply(split_step(st, words[i], limit), rest)

\* Lines 24-41.
split_string(t, sep, limit) ==
    LET loop(words) == split_loop(words, 1, [parts |-> <<>>, current |-> <<>>], limit)
        last(st) == IF st.current # <<>> THEN Append(st.parts, st.current) ELSE st.parts
    IN  Apply(Apply(Split(t, sep), loop), last)

(***************************************************************************)
(* extract_state (lines 46-72).                                            *)
(***************************************************************************)

\* Lines 49-67: the gazetteer, in the order of the list.
malaysia_states == <<
    <<"J", "O", "H", "O", "R">>,
    <<"K", "E", "D", "A", "H">>,
    <<"K", "E", "L", "A", "N", "T", "A", "N">>,
    <<"M", "E", "L", "A", "K", "A">>,
    <<"N", "E", "G", "E", "R", "I", " ", "S", "E", "M", "B", "I", "L", "A", "N">>,
    <<"P", "A", "H", "A", "N", "G">>,
    <<"P", "U", "L", "A", "U", " ", "P", "I", "N", "A", "N", "G">>,
    <<"P", "E", "R", "A", "K">>,
    <<"P", "E", "R", "L", "I", "S">>,
    <<"S", "A", "B", "A", "H">>,
    <<"S", "A", "R", "A", "W", "A", "K">>,
    <<"S", "E", "L", "A", "N", "G", "O", "R">>,
    <<"T", "E", "R", "E", "N", "G", "G", "A", "N", "U">>,
    <<"W", "I", "L", "A", "Y", "A", "H", " ", "P", "E", "R", "S", "E", "K", "U", "T", "U", "A", "N", " ", "K", "U", "A", "L", "A", " ", "L", "U", "M", "P", "U", "R">>,
    <<"W", "I", "L", "A", "Y", "A", "H", " ", "P", "E", "R", "S", "E", "K", "U", "T", "U", "A", "N", " ", "P", "U", "T", "R", "A", "J", "A", "Y", "A">>,
    <<"W", "I", "L", "A", "Y", "A", "H", " ", "P", "E", "R", "S", "E", "K", "U", "T", "U", "A", "N", " ", "L", "A", "B", "U", "A", "N">>,
    <<"F", "E", "D", "E", "R", "A", "L", " ", "T", "E", "R", "R", "I", "T", "O", "R", "Y", " ", "O", "F", " ", "L", "A", "B", "U", "A", "N">>
>>

\* `sub in s` of two str: sub occurs in s as a run of adjacent characters.
Contains(s, sub) ==
    \E i \in 0..(Len(s) - Len(sub)) : SubSeq(s, i + 1, i + Len(sub)) = sub

\* Lines 69-72: the scan of the gazetteer, from entry i on.
RECURSIVE extract_state_from(_, _)
extract_state_from(addr, i) ==
    IF i > Len(malaysia_states) THEN None
    ELSE IF Contains(addr, malaysia_states[i]) THEN malaysia_states[i]
    ELSE extract_state_from(addr, i + 1)

\* Mutant of extract_state: the scan keeps the last match, not the first.
RECURSIVE extract_state_last_from(_, _)
extract_state_last_from(addr, i) ==
    IF i < 1 THEN None
    ELSE IF Contains(addr, malaysia_states[i]) THEN malaysia_states[i]
    ELSE extract_state_last_from(addr, i - 1)

extract_state_last(addr) == extract_state_last_from(addr, Len(malaysia_states))

\* Lines 46-72.
extract_state(addr) == extract_state_from(addr, 1)

(***************************************************************************)
(* extract_city (lines 76-82).                                             *)
(***************************************************************************)
NoResult == [exc |-> "none", val |-> None]

Returned(v) == [exc |-> "none", val |-> v]
Raised(e) == [exc |-> e, val |-> None]

Whitespace == {" "}

\* s.replace(old, ''): the indices of s that are kept.  The scan goes left
\* to right and skips each occurrence of old it meets, so occurrences that
\* overlap a removed one are not removed; an empty old removes nothing.
RECURSIVE ReplaceKeep(_, _, _, _)
ReplaceKeep(s, old, i, kept) ==
    IF i > Len(s) THEN kept
    ELSE IF /\ old # <<>>
            /\ i + Len(old) - 1 <= Len(s)
            /\ SubSeq(s, i, i + Len(old) - 1) = old
         THEN ReplaceKeep(s, old, i + Len(old), kept)
         ELSE ReplaceKeep(s, old, i + 1, Append(kept, i))

\* Mutant of Replace: only the first occurrence is removed.
ReplaceFirst(s, old) ==
    IF old = <<>> \/ ~Contains(s, old) THEN s
    ELSE LET i == CHOOSE k \in 1..Len(s) :
                      /\ k + Len(old) - 1 <= Len(s)
                      /\ SubSeq(s, k, k + Len(old) - 1) = old
                      /\ \A j \in 1..(k - 1) : SubSeq(s, j, j + Len(old) - 1) # old
         IN  SubSeq(s, 1, i - 1) \o SubSeq(s, i + Len(old), Len(s))

\* s.replace(old, '')
Replace(s, old) ==
    LET removed(x) ==
            LET pick(kept) == [j \in 1..Len(kept) |-> x[kept[j]]] \o <<>>
            IN  Apply(ReplaceKeep(x, old, 1, <<>>), pick)
    IN  Apply(s, removed)

\* s.strip(): the first and the last index kept (first > last: nothing is).
StripFirst(s) ==
    IF \A i \in 1..Len(s) : s[i] \in Whitespace THEN Len(s) + 1
    ELSE CHOOSE i \in 1..Len(s) :
             s[i] \notin Whitespace /\ \A j \in 1..(i - 1) : s[j] \in Whitespace

StripLast(s) ==
    IF \A i \in 1..Len(s) : s[i] \in Whitespace THEN Len(s)
    ELSE CHOOSE i \in 1..Len(s) :
             s[i] \notin Whitespace /\ \A j \in (i + 1)..Len(s) : s[j] \in Whitespace

Strip(s) ==
    LET trim(x) == SubSeq(x, StripFirst(x), StripLast(x))
    IN  Apply(s, trim)

\* Line 82.  str.replace raises TypeError when its first argument is no
\* str; the three calls are made left to right.
extract_city(r, full_address, address_line, postcode, st) ==
    IF r[address_line] = None \/ r[postcode] = None \/ r[st] = None
    THEN Raised("TypeError")
    ELSE Returned(Strip(Replace(Replace(Replace(r[full_address], r[address_line]),
                                        r[postcode]), r[st])))

(***************************************************************************)
(* process_file (lines 86-237).  A table is a function from column names   *)
(* to columns, a column the sequence of its values by row.  A stage takes  *)
(* [df, exc]: the table so far and the exception raised so far ("none":    *)
(* none); a stage that raises leaves the table as the stages before it     *)
(* left it, because every stage assigns into the caller's table.           *)
(***************************************************************************)
DigitSeq == <<"0", "1", "2", "3", "4", "5", "6", "7", "8", "9">>
DigitChars == {DigitSeq[i] : i \in 1..Len(DigitSeq)}
LowerSeq == <<"a", "b", "c", "d", "e", "f", "g", "h", "i", "j", "k", "l", "m", "n", "o", "p", "q", "r", "s", "t", "u", "v", "w", "x", "y", "z">>
UpperSeq == <<"A", "B", "C", "D", "E", "F", "G", "H", "I", "J", "K", "L", "M", "N", "O", "P", "Q", "R", "S", "T", "U", "V", "W", "X", "Y", "Z">>
WordChars ==
    DigitChars \cup {"_"} \cup {LowerSeq[i] : i \in 1..Len(LowerSeq)}
               \cup {UpperSeq[i] : i \in 1..Len(UpperSeq)}

\* str.upper()
Upper(s) ==
    [i \in 1..Len(s) |->
        IF \E k \in 1..Len(LowerSeq) : LowerSeq[k] = s[i]
        THEN UpperSeq[CHOOSE k \in 1..Len(LowerSeq) : LowerSeq[k] = s[i]]
        ELSE s[i]]

\* s.replace(old, new) for a non-empty old, from index i on.
RECURSIVE ReplaceWithFrom(_, _, _, _)
ReplaceWithFrom(s, old, new, i) ==
    IF i > Len(s) THEN <<>>
    ELSE IF i + Len(old) - 1 <= Len(s) /\ SubSeq(s, i, i + Len(old) - 1) = old
         THEN new \o ReplaceWithFrom(s, old, new, i + Len(old))
         ELSE <<s[i]>> \o ReplaceWithFrom(s, old, new, i + 1)

ReplaceWith(s, old, new) ==
    LET from(x) == ReplaceWithFrom(x, old, new, 1)
    IN  Apply(s, from)

\* The table d with column name set to col (added, or assigned over).
SetCol(d, name, col) == (name :> col) @@ d

Rows(d) == 1..Len(d["A2"])

\* The column of d whose value at row r is F(r).
Column(d, F(_)) == [r \in Rows(d) |-> F(r)] \o <<>>

\* The index where the regular expression \b\d{5}\b first matches in s, or
\* 0: five digits with no word character right before or right after.
PostcodeAt(s) ==
    LET Match(i) ==
            /\ i + 4 <= Len(s)
            /\ \A k \in i..(i + 4) : s[k] \in DigitChars
            /\ (i = 1 \/ s[i - 1] \notin WordChars)
            /\ (i + 5 > Len(s) \/ s[i + 5] \notin WordChars)
    IN  IF \E i \in 1..Len(s) : Match(i)
        THEN CHOOSE i \in 1..Len(s) : Match(i) /\ \A j \in 1..(i - 1) : ~Match(j)
        ELSE 0

\* Lines 109 and 185: .str.extract(r'^(.*?)(?=\b\d{5}\b)').str.strip(), NaN
\* when the expression does not match.
address_line_of(s) ==
    LET before(i) == IF i = 0 THEN None ELSE Strip(SubSeq(s, 1, i - 1))
    IN  Apply(PostcodeAt(s), before)

\* Lines 119 and 195: .str.extract(r'(\b\d{5}\b)'), NaN when no match.
postcode_of(s) ==
    LET group(i) == IF i = 0 THEN None ELSE SubSeq(s, i, i + 4)
    IN  Apply(PostcodeAt(s), group)

\* Lines 115-116 and 191-192: x.strip().replace('  ', ', ')
address_chunk(x) == ReplaceWith(Strip(x), <<" ", " ">>, <<",", " ">>)

\* Lines 128-131 and 204-207: Series.replace({...}, regex=True); a value
\* that is no str is left alone.
shorten_state(v) ==
    IF v = None THEN None
    ELSE ReplaceWith(ReplaceWith(v, <<"W", "I", "L", "A", "Y", "A", "H", " ", "P", "E", "R", "S", "E", "K", "U", "T", "U", "A", "N">>, <<"W", ".", "P", ".">>),
                     <<"F", "E", "D", "E", "R", "A", "L", " ", "T", "E", "R", "R", "I", "T", "O", "R", "Y", " ", "O", "F">>, <<"F", ".", "T", ".">>)

Ok(d) == [df |-> d, exc |-> "none"]
Fail(st, e) == [df |-> st.df, exc |-> e]

\* Line 90: df.columns = df.columns.str.strip().  The only column names
\* with surrounding whitespace the model draws are those listed here.
strip_name(c) == IF c = "A4 " THEN "A4" ELSE c

strip_columns(st) ==
    Ok([c \in {strip_name(k) : k \in DOMAIN st.df} |->
           st.df[CHOOSE k \in DOMAIN st.df : strip_name(k) = c]])

\* Lines 96-99: the four characters of str(Tahun Taksiran) of row 0, each
\* set on every row.
RECURSIVE str_int(_)
str_int(n) ==
    IF n < 10 THEN <<DigitSeq[n + 1]>>
    ELSE str_int(n \div 10) \o <<DigitSeq[(n % 10) + 1]>>

year_columns(st) ==
    IF st.exc # "none" THEN st
    ELSE LET d == st.df
             y == str_int(d["Tahun Taksiran"][1])
             all(c) == LET same(r) == <<c>> IN Column(d, same)
         IN  IF Len(y) < 4 THEN Fail(st, "IndexError")
             ELSE Ok(SetCol(SetCol(SetCol(SetCol(d, "year_1", all(y[1])),
                     "year_2", all(y[2])), "year_3", all(y[3])), "year_4", all(y[4])))

\* Lines 102-106: the employer name, upper-cased, wrapped at 52 and its
\* first two chunks.  split_string(NaN) raises AttributeError, x[0] of an
\* empty list IndexError.
employer_name(st) ==
    IF st.exc # "none" THEN st
    ELSE LET d == st.df
             wrapped(r) == split_string(Upper(d["A1"][r]), " ", 52)
             assign(split) ==
                 LET d1 == SetCol(d, "employer_name_split", split)
                     first(r) == split[r][1]
                     second(r) == IF Len(split[r]) > 1 THEN split[r][2] ELSE <<>>
                 IN  IF \E r \in Rows(d) : split[r] = <<>>
                     THEN [df |-> d1, exc |-> "IndexError"]
                     ELSE Ok(SetCol(SetCol(d1, "A1_1", Column(d, first)),
                                    "A1_2", Column(d, second)))
         IN  IF \E r \in Rows(d) : d["A1"][r] = None THEN Fail(st, "AttributeError")
             ELSE Apply(Column(d, wrapped), assign)

\* Lines 109-131 for col = "A2" and lines 185-207 for col = "C1": address
\* line, its wrapping at 62 on ',', postcode, state, city and the shortened
\* state.  Each assignment is made into the table before the next line runs.
address_columns(st, col) ==
    IF st.exc # "none" THEN st
    ELSE LET d == st.df
             \* Lines 128-131, on the table d5 with the cities.
             shorten(d5) ==
                 LET short(r) == shorten_state(d5[col \o "_state"][r])
                 IN  Ok(SetCol(d5, col \o "_state", Column(d, short)))
             \* Line 125, on the table d4 with postcode and state.
             with_city(d4) ==
                 LET city_of(r) ==
                         extract_city([c \in DOMAIN d4 |-> d4[c][r]], col,
                                      col \o "_address_line", col \o "_postcode",
                                      col \o "_state")
                     assign(cities) ==
                         LET val(r) == cities[r].val
                         IN  IF \E r \in Rows(d) : cities[r].exc # "none"
                             THEN [df |-> d4, exc |-> "TypeError"]
                             ELSE Apply(SetCol(d4, col \o "_city", Column(d, val)), shorten)
                 IN  Apply(Column(d, city_of), assign)
             \* Lines 112-122, on the table d1 with the address line.
             with_split(d1) ==
                 LET wrapped(r) ==
                         split_string(Upper(d1[col \o "_address_line"][r]), ",", 62)
                     postcode(r) == postcode_of(d[col][r])
                     state_of(r) == extract_state(d[col][r])
                     assign(split) ==
                         LET d2 == SetCol(d1, col \o "_address_line_split", split)
                             first(r) == address_chunk(split[r][1])
                             second(r) == IF Len(split[r]) > 1
                                          THEN address_chunk(split[r][2]) ELSE <<>>
                         IN  IF \E r \in Rows(d) : split[r] = <<>>
                             THEN [df |-> d2, exc |-> "IndexError"]
                             ELSE Apply(SetCol(SetCol(SetCol(SetCol(d2,
                                            col \o "_address_1", Column(d, first)),
                                            col \o "_address_2", Column(d, second)),
                                            col \o "_postcode", Column(d, postcode)),
                                            col \o "_state", Column(d, state_of)),
                                        with_city)
                 IN  IF \E r \in Rows(d) : d1[col \o "_address_line"][r] = None
                     THEN [df |-> d1, exc |-> "AttributeError"]
                     ELSE Apply(Column(d, wrapped), assign)
             line(r) == address_line_of(d[col][r])
         IN  Apply(SetCol(d, col \o "_address_line", Column(d, line)), with_split)

\* A date value of a datetime column; NaT is the missing date.
NaT == [day |-> 0, month |-> 0, year |-> 0]

\* A number read from a datetime column, or NaN.
NaN == [n |-> 0, float |-> TRUE, nan |-> TRUE]

\* Lines 140-174: Series.dt.day, .dt.month and .dt.year.  The accessor
\* gives an integer column when every row holds a date, and a float column,
\* NaN at the missing rows, when some row holds NaT.
dt_field(col, f) ==
    LET hasnans == \E r \in 1..Len(col) : col[r] = NaT
    IN  [r \in 1..Len(col) |->
            IF col[r] = NaT THEN NaN
            ELSE [n |-> col[r][f], float |-> hasnans, nan |-> FALSE]]

\* str(x) of a number of a datetime column: 15 -> "15", 15.0 -> "15.0".
str_num(x) ==
    IF x.nan THEN <<"n", "a", "n">>
    ELSE IF x.float THEN str_int(x.n) \o <<".", "0">>
    ELSE str_int(x.n)

\* s.zfill(width) of a string with no sign.
zfill(s, width) ==
    IF Len(s) >= width THEN s ELSE [i \in 1..(width - Len(s)) |-> "0"] \o s

\* gap.join(list(s))
RECURSIVE join_chars(_, _)
join_chars(s, gap) ==
    IF Len(s) <= 1 THEN s
    ELSE <<Head(s)>> \o gap \o join_chars(Tail(s), gap)

\* gap.join(list(str(x).zfill(width)))
render(x, width, gap) ==
    LET padded(t) == LET join(s) == join_chars(s, gap) IN Apply(zfill(t, width), join)
    IN  Apply(str_num(x), padded)

\* Lines 140-141, 157-158, ...: '  '.join(list(str(x).zfill(2)))
render_day_month(x) == render(x, 2, <<" ", " ">>)

\* Line 142: '   '.join(list(str(x).zfill(2)))
render_year_a7(x) == render(x, 2, <<" ", " ", " ">>)

\* Lines 159, 164, 169, 174: '   '.join(list(str(x).zfill(4)))
render_year_range(x) == render(x, 4, <<" ", " ", " ">>)

\* The day, month and year columns rendered from the datetime column dt,
\* set on the table d under the names prefix_day, prefix_month, prefix_year.
render_columns(d, dt, prefix, render_year(_)) ==
    LET assign(fields) ==
            LET day(r) == render_day_month(fields.day[r])
                month(r) == render_day_month(fields.month[r])
                year(r) == render_year(fields.year[r])
            IN  SetCol(SetCol(SetCol(d,
                    prefix \o "_day", Column(d, day)),
                    prefix \o "_month", Column(d, month)),
                    prefix \o "_year", Column(d, year))
    IN  Apply([day |-> dt_field(dt, "day") \o <<>>,
               month |-> dt_field(dt, "month") \o <<>>,
               year |-> dt_field(dt, "year") \o <<>>], assign)

A7Column == "A7 (Commencement Date / Incorporation Date)"

\* Lines 137-142.  The A7 column holds dates (or nothing), as a spreadsheet
\* reader delivers them; pd.to_datetime keeps them.
a7_columns(st) ==
    IF st.exc # "none" THEN st
    ELSE LET d == st.df
         IN  Ok(render_columns(SetCol(d, "A7_datetime", d[A7Column]),
                               d[A7Column], "A7", render_year_a7))

\* The tokens of s.split(' hingga ', n=1): the text before and after the
\* first ' hingga ', or the whole text.
Hingga == <<" ", "h", "i", "n", "g", "g", "a", " ">>

split_hingga(s) ==
    IF Contains(s, Hingga)
    THEN LET halves(i) == <<SubSeq(s, 1, i - 1), SubSeq(s, i + Len(Hingga), Len(s))>>
         IN  Apply(CHOOSE k \in 1..Len(s) :
                       /\ SubSeq(s, k, k + Len(Hingga) - 1) = Hingga
                       /\ \A j \in 1..(k - 1) : SubSeq(s, j, j + Len(Hingga) - 1) # Hingga,
                   halves)
    ELSE <<s>>

\* int(s) of a string of decimal digits, from digit i on, n read so far.
RECURSIVE parse_int_from(_, _, _)
parse_int_from(s, i, n) ==
    IF i > Len(s) THEN n
    ELSE parse_int_from(s, i + 1,
                        10 * n + (CHOOSE k \in 0..9 : DigitSeq[k + 1] = s[i]))

parse_int(s) == parse_int_from(s, 1, 0)

\* pd.to_datetime(s, format='%d-%m-%Y') of one value: NaT for a missing
\* value, the date, or ValueError (the day is checked against 31 only).
parse_dmy(s) ==
    IF s = None THEN Returned(NaT)
    ELSE LET numeric(w) == w # <<>> /\ \A i \in 1..Len(w) : w[i] \in DigitChars
             date(t) ==
                 IF /\ Len(t) = 3
                    /\ \A i \in 1..3 : numeric(t[i])
                    /\ Len(t[1]) <= 2 /\ Len(t[2]) <= 2 /\ Len(t[3]) = 4
                    /\ parse_int(t[1]) \in 1..31 /\ parse_int(t[2]) \in 1..12
                 THEN Returned([day |-> parse_int(t[1]), month |-> parse_int(t[2]),
                                year |-> parse_int(t[3])])
                 ELSE Raised("ValueError")
         IN  Apply(Split(s, "-"), date)

\* Lines 145-146 for col = "A10" and col = "A11".  expand=True gives as many
\* columns as the longest split; rows with fewer tokens get None.  With no
\* ' hingga ' in any row there is one column for the two names assigned,
\* which raises ValueError.
range_split(st, col) ==
    IF st.exc # "none" THEN st
    ELSE LET d == st.df
             tokens(r) == split_hingga(d[col][r])
             assign(tok) ==
                 LET first(r) == tok[r][1]
                     second(r) == IF Len(tok[r]) > 1 THEN tok[r][2] ELSE None
                 IN  IF \A r \in Rows(d) : Len(tok[r]) = 1 THEN Fail(st, "ValueError")
                     ELSE Ok(SetCol(SetCol(d, col \o "_from", Column(d, first)),
                                    col \o "_to", Column(d, second)))
         IN  Apply(Column(d, tokens), assign)

\* Lines 149-154: one of the four halves parsed into its datetime column.
range_parse(st, half) ==
    IF st.exc # "none" THEN st
    ELSE LET d == st.df
             parse(r) == parse_dmy(d[half][r])
             assign(parsed) ==
                 LET val(r) == parsed[r].val
                 IN  IF \E r \in Rows(d) : parsed[r].exc # "none"
                     THEN Fail(st, "ValueError")
                     ELSE Ok(SetCol(d, half \o "_datetime", Column(d, val)))
         IN  Apply(Column(d, parse), assign)

\* Lines 157-174: one of the four halves rendered.
range_render(st, half) ==
    IF st.exc # "none" THEN st
    ELSE Ok(render_columns(st.df, st.df[half \o "_datetime"], half, render_year_range))

\* Line 134: .str.extract('(\d+)'): the first run of digits, NaN when the
\* value has no digit.
first_digits(s) ==
    IF s = None \/ \A i \in 1..Len(s) : s[i] \notin DigitChars THEN None
    ELSE LET run(a) ==
                 SubSeq(s, a, CHOOSE i \in a..Len(s) :
                                  /\ \A j \in a..i : s[j] \in DigitChars
                                  /\ (i = Len(s) \/ s[i + 1] \notin DigitChars))
         IN  Apply(CHOOSE i \in 1..Len(s) :
                       s[i] \in DigitChars /\ \A j \in 1..(i - 1) : s[j] \notin DigitChars,
                   run)

tin_digits(st) ==
    IF st.exc # "none" THEN st
    ELSE LET d == st.df
             digits(r) == first_digits(d["A3"][r])
         IN  Ok(SetCol(d, "A3", Column(d, digits)))

\* A float is <<"float">> followed by the characters of its decimal
\* notation, which is no str because "float" is not a character.
IsFloat(x) == x # <<>> /\ x[1] = "float"

\* '{:.4f}'.format(x) of a float with at most 4 fractional digits.
format_4f(x) ==
    LET fixed(t) ==
            LET frac == IF Len(t) > 1 THEN t[2] ELSE <<>>
            IN  t[1] \o <<".">> \o frac \o [i \in 1..(4 - Len(frac)) |-> "0"]
    IN  Apply(Split(Tail(x), "."), fixed)

\* Line 177: a null value is kept, a float is formatted, and the format
\* code 'f' applied to a str raises ValueError.
a14_format(st) ==
    IF st.exc # "none" THEN st
    ELSE LET d == st.df
             null(x) == x = None
             formatted(r) == IF null(d["A14"][r]) THEN d["A14"][r]
                             ELSE format_4f(d["A14"][r])
         IN  IF \E r \in Rows(d) : ~null(d["A14"][r]) /\ ~IsFloat(d["A14"][r])
             THEN Fail(st, "ValueError")
             ELSE Ok(SetCol(d, "A14", Column(d, formatted)))

\* Line 209.
country(st) ==
    IF st.exc # "none" THEN st
    ELSE LET malaysia(r) == <<"M", "A", "L", "A", "Y", "S", "I", "A">>
         IN  Ok(SetCol(st.df, "C1_country", Column(st.df, malaysia)))

\* Line 212: df.columns = df.columns.str.replace('\n', ' ').  The only
\* column name with a newline the model draws is the one listed here.
unfold_name(c) == IF c = "C6b\n= B5" THEN "C6b = B5" ELSE c

unfold_columns(st) ==
    IF st.exc # "none" THEN st
    ELSE Ok([c \in {unfold_name(k) : k \in DOMAIN st.df} |->
                st.df[CHOOSE k \in DOMAIN st.df : unfold_name(k) = c]])

\* Lines 215-235: the columns of the returned table; a column that is
\* missing raises KeyError (project, below).  Of the columns the
\* pipeline only passes through (A4, A5, ..., D4), the model keeps A4 and
\* 'C6b = B5'.
OutputColumns == {
    "year_1", "year_2", "year_3", "year_4",
    "A1_1", "A1_2",
    "A2_address_1", "A2_address_2", "A2_postcode", "A2_city", "A2_state",
    "A3", "A4",
    "A7_day", "A7_month", "A7_year",
    "A10_from_day", "A10_from_month", "A10_from_year",
    "A10_to_day", "A10_to_month", "A10_to_year",
    "A11_from_day", "A11_from_month", "A11_from_year",
    "A11_to_day", "A11_to_month", "A11_to_year",
    "A14",
    "C1_address_1", "C1_address_2", "C1_postcode", "C1_city", "C1_state", "C1_country",
    "C6b = B5"}

\* The stages of lines 90-212, in the order of the code.
pipeline(d) ==
    LET A2(st) == address_columns(st, "A2")
        C1(st) == address_columns(st, "C1")
        split_A10(st) == range_split(st, "A10")
        split_A11(st) == range_split(st, "A11")
        parse_A10_from(st) == range_parse(st, "A10_from")
        parse_A10_to(st) == range_parse(st, "A10_to")
        parse_A11_from(st) == range_parse(st, "A11_from")
        parse_A11_to(st) == range_parse(st, "A11_to")
        render_A10_from(st) == range_render(st, "A10_from")
        render_A10_to(st) == range_render(st, "A10_to")
        render_A11_from(st) == range_render(st, "A11_from")
        render_A11_to(st) == range_render(st, "A11_to")
        s01 == Apply(Ok(d), strip_columns)
        s02 == Apply(s01, year_columns)
        s03 == Apply(s02, employer_name)
        s04 == Apply(s03, A2)
        s05 == Apply(s04, tin_digits)
        s06 == Apply(s05, a7_columns)
        s07 == Apply(s06, split_A10)
        s08 == Apply(s07, split_A11)
        s09 == Apply(s08, parse_A10_from)
        s10 == Apply(s09, parse_A10_to)
        s11 == Apply(s10, parse_A11_from)
        s12 == Apply(s11, parse_A11_to)
        s13 == Apply(s12, render_A10_from)
        s14 == Apply(s13, render_A10_to)
        s15 == Apply(s14, render_A11_from)
        s16 == Apply(s15, render_A11_to)
        s17 == Apply(s16, a14_format)
        s18 == Apply(s17, C1)
        s19 == Apply(s18, country)
    IN  Apply(s19, unfold_columns)

\* Lines 215-237: the selection of the output columns, returned.
project(st) ==
    IF st.exc # "none" THEN Raised(st.exc)
    ELSE IF ~(OutputColumns \subseteq DOMAIN st.df) THEN Raised("KeyError")
    ELSE Returned([c \in OutputColumns |-> st.df[c]])

\* Mutant of process_file: the pipeline works on a copy of the table.
process_file_on_copy(d) ==
    LET copy(st) == [df |-> d, ret |-> project(st)]
    IN  Apply(pipeline(d), copy)

\* Lines 86-237: what the call leaves in the caller's table, and what it
\* raises or returns.  Line 215 binds df to a new table, so the projection
\* does not change the caller's table.
process_file(d) ==
    LET result(st) == [df |-> st.df, ret |-> project(st)]
    IN  Apply(pipeline(d), result)

\* The variables of the operations a specification does not exercise.
SplitIdle == text = <<>> /\ separator = " " /\ max_len = 0 /\ parts = <<>>
StateIdle == address = <<>> /\ state = None
CityIdle == row = <<>> /\ city = NoResult
FileIdle == loaded = <<>> /\ df = <<>> /\ ret = NoResult

(***************************************************************************)
(* Specification SpecState: extract_state applied to addresses put         *)
(* together from gazetteer names and other pieces of text.                 *)
(***************************************************************************)
Pieces ==
    {malaysia_states[i] : i \in 1..Len(malaysia_states)} \cup
    {<<"N", "O", " ", "1", ",", " ", "J", "A", "L", "A", "N", " ", "X", ",", " ">>, <<" ">>, <<"5", "0", "0", "0", "0", " ">>, <<"J", "o", "h", "o", "r">>, <<"P", "E", "R", "A">>, <<"K">>,
     <<"K", "U", "A", "L", "A", " ", "L", "U", "M", "P", "U", "R">>}

RECURSIVE Concats(_)
Concats(n) ==
    IF n = 0 THEN {<<>>}
    ELSE LET shorter == Concats(n - 1)
         IN  shorter \cup {s \o p : s \in shorter, p \in Pieces}

InitState ==
    /\ pc = "idle"
    /\ address \in Concats(MaxPieces)
    /\ state = None
    /\ SplitIdle /\ CityIdle /\ FileIdle

CallExtractState ==
    /\ pc = "idle"
    /\ state' = extract_state(address)
    /\ pc' = "done"
    /\ UNCHANGED <<text, separator, max_len, parts, address, row, city, loaded, df, ret>>

NextState == CallExtractState

SpecState == InitState /\ [][NextState]_vars

(***************************************************************************)
(* Specification SpecCity: extract_city applied to a row whose address     *)
(* line, postcode and state are each None or a piece of the address.       *)
(***************************************************************************)
CityChars == {"a", "b", " "}

\* The non-empty runs of s of at most n characters.
Runs(s, n) ==
    {t \in {SubSeq(s, i, j) : i \in 1..Len(s), j \in 1..Len(s)} :
        Len(t) >= 1 /\ Len(t) <= n}

CityRow(a, l, p, st) ==
    [c \in {"A2", "A2_address_line", "A2_postcode", "A2_state"} |->
        CASE c = "A2" -> a
          [] c = "A2_address_line" -> l
          [] c = "A2_postcode" -> p
          [] c = "A2_state" -> st]

InitCity ==
    /\ pc = "idle"
    /\ \E a \in SeqsUpTo(CityChars, MaxAddrLen) :
           \E l, p, st \in Runs(a, MaxPartLen) \cup {None} :
               row = CityRow(a, l, p, st)
    /\ city = NoResult
    /\ SplitIdle /\ StateIdle /\ FileIdle

CallExtractCity ==
    /\ pc = "idle"
    /\ city' = extract_city(row, "A2", "A2_address_line", "A2_postcode", "A2_state")
    /\ pc' = "done"
    /\ UNCHANGED <<text, separator, max_len, parts, address, state, row, loaded, df, ret>>

NextCity == CallExtractCity

SpecCity == InitCity /\ [][NextCity]_vars

(***************************************************************************)
(* Specification SpecSplit: split_string applied to every bounded input.   *)
(***************************************************************************)
SplitChars == {"a", "b", " ", ","}
Separators == {" ", ","}

InitSplit ==
    /\ pc = "idle"
    /\ text \in SeqsUpTo(SplitChars, MaxTextLen)
    /\ separator \in Separators
    /\ max_len \in 0..MaxMaxLen
    /\ parts = <<>>
    /\ StateIdle /\ CityIdle /\ FileIdle

CallSplitString ==
    /\ pc = "idle"
    /\ parts' = split_string(text, separator, max_len)
    /\ pc' = "done"
    /\ UNCHANGED <<text, separator, max_len, address, state, row, city, loaded, df, ret>>

NextSplit == CallSplitString

SpecSplit == InitSplit /\ [][NextSplit]_vars

(***************************************************************************)
(* Specification SpecFile: process_file called, any number of times, on a  *)
(* table of 1..MaxRows rows that the caller loaded and keeps.              *)
(***************************************************************************)
A2Choices == {
    <<"N", "o", " ", "1", ",", " ", "J", "a", "l", "a", "n", " ", "X", ",", " ", "3", "1", "4", "0", "0", " ", "I", "P", "O", "H", " ", "P", "E", "R", "A", "K">>,
    <<"N", "o", " ", "1", ",", " ", "J", "a", "l", "a", "n", " ", "X", ",", " ", "I", "P", "O", "H", " ", "P", "E", "R", "A", "K">>,
    <<"N", "o", " ", "1", ",", " ", "J", "a", "l", "a", "n", " ", "X", ",", " ", "3", "1", "4", "0", "0", " ", "I", "P", "O", "H">>,
    <<"N", "o", " ", "1", ",", " ", "J", "a", "l", "a", "n", " ", "X">>}

DateChoices == {
    [a7 |-> [day |-> 15, month |-> 3, year |-> 2021],
     a10 |-> <<"0", "1", "-", "0", "1", "-", "2", "0", "2", "0", " ", "h", "i", "n", "g", "g", "a", " ", "3", "1", "-", "1", "2", "-", "2", "0", "2", "0">>],
    [a7 |-> NaT,
     a10 |-> <<"0", "1", "-", "0", "1", "-", "2", "0", "2", "0", " ", "h", "i", "n", "g", "g", "a", " ", "3", "1", "-", "1", "2", "-", "2", "0", "2", "0">>],
    [a7 |-> [day |-> 15, month |-> 3, year |-> 2021],
     a10 |-> <<"0", "1", "-", "0", "1", "-", "2", "0", "2", "0">>]}

A14Choices == {None, <<"float">> \o <<"1", "2", "3", "4", ".", "5">>}

RowChoices == [a2 : A2Choices, dates : DateChoices, a14 : A14Choices]

C1Address ==
    <<"L", "o", "t", " ", "2", ",", " ", "J", "a", "l", "a", "n", " ", "Y", ",", " ", "8", "7", "0", "0", "0", " ", "W", "I", "L", "A", "Y", "A", "H", " ", "P", "E", "R", "S", "E", "K", "U", "T", "U", "A", "N", " ", "L", "A", "B", "U", "A", "N">>

\* The table of the rows rs; padded: the header of A4 ends with a space.
Table(rs, padded) ==
    LET a4 == IF padded THEN "A4 " ELSE "A4"
    IN  [c \in {"Tahun Taksiran", "A1", "A2", "A3", a4, A7Column, "A10", "A11",
                "A14", "C1", "C6b\n= B5"} |->
            [r \in 1..Len(rs) |->
                CASE c = "Tahun Taksiran" -> 2025
                  [] c = "A1" -> <<"S", "y", "a", "r", "i", "k", "a", "t", " ", "C", "o", "n", "t", "o", "h", " ", "S", "d", "n", " ", "B", "h", "d">>
                  [] c = "A2" -> rs[r].a2
                  [] c = "A3" -> <<"L", "E", " ", "2", "5", "1", "2", "3", "4", "5", "6", "7", "8">>
                  [] c = a4 -> <<"x">>
                  [] c = A7Column -> rs[r].dates.a7
                  [] c = "A10" -> rs[r].dates.a10
                  [] c = "A11" -> <<"0", "1", "-", "0", "7", "-", "2", "0", "2", "0", " ", "h", "i", "n", "g", "g", "a", " ", "3", "0", "-", "0", "6", "-", "2", "0", "2", "1">>
                  [] c = "A14" -> rs[r].a14
                  [] c = "C1" -> C1Address
                  [] c = "C6b\n= B5" -> <<"y">>]]

InitFile ==
    /\ pc = "idle"
    /\ \E n \in 1..MaxRows : \E rs \in [1..n -> RowChoices] : \E padded \in BOOLEAN :
           loaded = Table(rs, padded)
    /\ df = loaded
    /\ ret = NoResult
    /\ SplitIdle /\ StateIdle /\ CityIdle

ProcessFile ==
    /\ \E r \in {process_file(df)} : df' = r.df /\ ret' = r.ret
    /\ pc' = "done"
    /\ UNCHANGED <<text, separator, max_len, parts, address, state, row, city, loaded>>

NextFile == ProcessFile

SpecFile == InitFile /\ [][NextFile]_vars

(***************************************************************************)
(* Claims about split_string, checked under SpecSplit.                     *)
(***************************************************************************)
Words == Split(text, separator)

\* The sequences of ss joined by the one-character separator sep.
RECURSIVE Join(_, _)
Join(ss, sep) ==
    IF ss = <<>> THEN <<>>
    ELSE IF Len(ss) = 1 THEN ss[1]
    ELSE ss[1] \o <<sep>> \o Join(Tail(ss), sep)

\* The non-empty tokens of s when both the space and sep separate tokens.
NonEmptyTokens(s, sep) ==
    SelectSeq(Split([i \in 1..Len(s) |-> IF s[i] = sep THEN " " ELSE s[i]], " "),
              LAMBDA w : w # <<>>)

\* C1: every chunk returned by split_string has length at most max_len,
\* except a chunk that is exactly one word which is itself longer than
\* max_len.
C1_ChunkWithinMaxLen ==
    pc = "done" =>
        \A i \in 1..Len(parts) :
            \/ Len(parts[i]) <= max_len
            \/ \E j \in 1..Len(Words) :
                   Words[j] = parts[i] /\ Len(Words[j]) > max_len

\* C1 witness: a call that returned a chunk of two joined words that fills
\* max_len exactly, and a single-word chunk longer than max_len.
C1_Witness ==
    /\ pc = "done"
    /\ separator = " "
    /\ \E i \in 1..Len(parts), j \in 1..(Len(Words) - 1) :
           /\ Words[j] # <<>>
           /\ parts[i] = Words[j] \o <<" ">> \o Words[j + 1]
           /\ Len(parts[i]) = max_len
    /\ \E k \in 1..Len(parts) : Len(parts[k]) > max_len

\* C2: split_string returns at least one chunk and every chunk is a
\* non-empty string, also when a word is longer than max_len.
C2_ChunksNonEmpty ==
    pc = "done" =>
        /\ Len(parts) >= 1
        /\ \A i \in 1..Len(parts) : parts[i] # <<>>

\* C3: split_string called with the empty string returns exactly one chunk,
\* the empty string.
C3_EmptyTextOneEmptyChunk ==
    (pc = "done" /\ text = <<>>) => parts = << <<>> >>

\* C4 as stated: joining the chunks with the separator and splitting again
\* on the separator gives the token sequence of the original text.
C4_RejoinRestoresTokens ==
    pc = "done" => Split(Join(parts, separator), separator) = Words

\* C4 amended: joining the chunks with a space and splitting on spaces and
\* separators gives the same non-empty tokens, in the same order, as
\* splitting the original text on spaces and separators.
C4_NonEmptyTokensKept ==
    pc = "done" =>
        NonEmptyTokens(Join(parts, " "), separator) = NonEmptyTokens(text, separator)

\* C4 witness: a call with separator ',' that returned several chunks, one
\* of them holding two words joined by the space, from a text with an empty
\* token.
C4_Witness ==
    /\ pc = "done"
    /\ separator = ","
    /\ Len(parts) >= 2
    /\ \E j \in 1..Len(Words) : Words[j] = <<>>
    /\ \E i \in 1..Len(parts), j \in 1..(Len(Words) - 1) :
           /\ Words[j] # <<>> /\ Words[j + 1] # <<>>
           /\ parts[i] = Words[j] \o <<" ">> \o Words[j + 1]
    /\ Split(Join(parts, separator), separator) # Words

(***************************************************************************)
(* Claims about extract_state, checked under SpecState.                    *)
(***************************************************************************)
\* The gazetteer entries that occur in addr.
NamesIn(addr) == {i \in 1..Len(malaysia_states) : Contains(addr, malaysia_states[i])}

\* C9: extract_state returns the first of the 17 gazetteer names, in
\* gazetteer order, that occurs in the address as a case-sensitive
\* substring, and None when none occurs; an address that contains exactly
\* one name gives that name.
C9_FirstGazetteerMatch ==
    pc = "done" =>
        /\ Len(malaysia_states) = 17
        /\ NamesIn(address) = {} => state = None
        /\ NamesIn(address) # {} =>
               \E i \in NamesIn(address) :
                   /\ state = malaysia_states[i]
                   /\ \A j \in NamesIn(address) : i <= j
        /\ \A i \in NamesIn(address) :
               NamesIn(address) = {i} => state = malaysia_states[i]

\* C9 witness: the address holds two names, the one later in the gazetteer
\* first, and the call returned the one earlier in the gazetteer.
C9_Witness ==
    /\ pc = "done"
    /\ \E i, j \in 1..Len(malaysia_states) :
           /\ i < j
           /\ address = malaysia_states[j] \o malaysia_states[i]
           /\ NamesIn(address) = {i, j}
           /\ state = malaysia_states[i]

(***************************************************************************)
(* Claims about extract_city, checked under SpecCity.                      *)
(***************************************************************************)
CityAddress == row["A2"]
CityLine == row["A2_address_line"]
CityPostcode == row["A2_postcode"]
CityState == row["A2_state"]
AllPresent == CityLine # None /\ CityPostcode # None /\ CityState # None

\* C6: extract_city is all-or-nothing: it never raises, it returns None
\* when at least one of line, postcode and state is None, and a string when
\* all three are present.
C6_AllOrNothing ==
    pc = "done" =>
        /\ city.exc = "none"
        /\ ~AllPresent => city.val = None
        /\ AllPresent => city.val # None

\* C8 as stated: the city contains none of line, postcode and state as a
\* substring.
C8_CityContainsNone ==
    (pc = "done" /\ AllPresent) =>
        /\ city.exc = "none"
        /\ ~Contains(city.val, CityLine)
        /\ ~Contains(city.val, CityPostcode)
        /\ ~Contains(city.val, CityState)

\* The index in the address a of every character of the city: the indices
\* kept by the removal of l, then of p, then of st, and by the trim.
OriginOf(a, l, p, st) ==
    LET keep1 == ReplaceKeep(a, l, 1, <<>>)
        after1 == [j \in 1..Len(keep1) |-> a[keep1[j]]]
        keep2 == ReplaceKeep(after1, p, 1, <<>>)
        after2 == [j \in 1..Len(keep2) |-> after1[keep2[j]]]
        keep3 == ReplaceKeep(after2, st, 1, <<>>)
        after3 == [j \in 1..Len(keep3) |-> after2[keep3[j]]]
        first == StripFirst(after3)
        last == StripLast(after3)
    IN  [j \in 1..(last - first + 1) |-> keep1[keep2[keep3[first + j - 1]]]]

\* p occurs in the city c at characters that were adjacent in the address,
\* where origin gives the index in the address of every character of c.
UnjoinedOccurrence(c, origin, p) ==
    \E j \in 1..(Len(c) - Len(p) + 1) :
        /\ SubSeq(c, j, j + Len(p) - 1) = p
        /\ \A t \in 0..(Len(p) - 2) : origin[j + t + 1] = origin[j + t] + 1

\* C8 amended: the city is the address with characters deleted, and it
\* contains none of line, postcode and state except where removing a piece
\* joined the text on either side of it into a new occurrence.
C8_NoUnjoinedOccurrence ==
    (pc = "done" /\ AllPresent) =>
        LET origin == OriginOf(CityAddress, CityLine, CityPostcode, CityState)
        IN  /\ city.exc = "none"
            /\ Len(city.val) = Len(origin)
            /\ \A j \in 1..Len(city.val) : city.val[j] = CityAddress[origin[j]]
            /\ ~UnjoinedOccurrence(city.val, origin, CityLine)
            /\ ~UnjoinedOccurrence(city.val, origin, CityPostcode)
            /\ ~UnjoinedOccurrence(city.val, origin, CityState)

\* C8 witness: three distinct pieces were removed, a removal joined the text
\* on either side of it, and the city contains none of the three.
C8_Witness ==
    /\ pc = "done"
    /\ AllPresent
    /\ Cardinality({CityLine, CityPostcode, CityState}) = 3
    /\ city.exc = "none"
    /\ LET origin == OriginOf(CityAddress, CityLine, CityPostcode, CityState)
       IN  \E j \in 1..(Len(origin) - 1) : origin[j + 1] > origin[j] + 1
    /\ ~Contains(city.val, CityLine)
    /\ ~Contains(city.val, CityPostcode)
    /\ ~Contains(city.val, CityState)

(***************************************************************************)
(* Claims about process_file, checked under SpecFile.                      *)
(***************************************************************************)
\* The rows of the loaded table.
LoadedRows == 1..Len(loaded["A2"])

NoPostcode(r) == PostcodeAt(loaded["A2"][r]) = 0
NoState(r) == extract_state(loaded["A2"][r]) = None

\* C5: for a row whose address has no standalone 5-digit token or matches
\* no gazetteer state, process_file does not abort: it returns the table,
\* and the row's postcode and address line (no token) or state (no match)
\* are null.
C5_MissingPartsGiveNulls ==
    (pc = "done" /\ \E r \in LoadedRows : NoPostcode(r) \/ NoState(r)) =>
        /\ ret.exc = "none"
        /\ \A r \in LoadedRows :
               /\ NoPostcode(r) => ret.val["A2_postcode"][r] = None
               /\ NoState(r) => ret.val["A2_state"][r] = None

\* The columns process_file derives and does not return.
WorkColumns == {
    "employer_name_split",
    "A2_address_line", "A2_address_line_split",
    "A7_datetime",
    "A10_from", "A10_to", "A11_from", "A11_to",
    "A10_from_datetime", "A10_to_datetime", "A11_from_datetime", "A11_to_datetime",
    "C1_address_line", "C1_address_line_split"}

\* C7 as stated: after a call returns, the table that was passed in has the
\* same columns and values as before the call.
C7_TableUnchanged ==
    (pc = "done" /\ ret.exc = "none") => df = loaded

\* The table d holds the output and the work columns, the returned table v
\* is its selection of the output columns, and A14 holds no float.
InPlace(d, v) ==
    /\ OutputColumns \cup WorkColumns \subseteq DOMAIN d
    /\ {unfold_name(strip_name(c)) : c \in DOMAIN loaded} \subseteq DOMAIN d
    /\ \A c \in OutputColumns : v[c] = d[c]
    /\ \A r \in LoadedRows :
           /\ d["A3"][r] = first_digits(loaded["A3"][r])
           /\ ~IsFloat(d["A14"][r])
           /\ loaded["A14"][r] = None <=> d["A14"][r] = None

\* C7 amended: process_file works in place on the table it is passed.  After
\* a call that returns, the table holds the derived columns, A3 and A14
\* rewritten, and the returned table is a selection of its columns; a call on
\* a table that a call has returned from gives the same table and the same
\* result when every A14 is null, and raises ValueError, leaving the table
\* as it is, when some A14 is not.
C7_WorksInPlace ==
    [][/\ ret'.exc = "none" => InPlace(df', ret'.val)
       /\ (pc = "done" /\ ret.exc = "none") =>
              /\ df' = df
              /\ IF \A r \in LoadedRows : df["A14"][r] = None
                 THEN ret' = ret
                 ELSE ret' = Raised("ValueError")]_vars

\* C7 witness: a second call on the table of a call that returned has raised
\* ValueError: the table holds the derived columns and A14 as text where the
\* loaded table holds a float.
C7_Witness ==
    /\ pc = "done"
    /\ ret = Raised("ValueError")
    /\ OutputColumns \cup WorkColumns \subseteq DOMAIN df
    /\ \E r \in LoadedRows :
           /\ IsFloat(loaded["A14"][r])
           /\ df["A14"][r] = <<"1", "2", "3", "4", ".", "5", "0", "0", "0">>

\* The date paths: the prefix of the rendered columns and the datetime
\* column they are rendered from.
DatePaths == {
    <<"A7", "A7_datetime">>,
    <<"A10_from", "A10_from_datetime">>, <<"A10_to", "A10_to_datetime">>,
    <<"A11_from", "A11_from_datetime">>, <<"A11_to", "A11_to_datetime">>}

\* The decimal digits of n, two or four of them, gap spaces between them.
TwoDigits(n) == <<DigitSeq[(n \div 10) + 1], " ", " ", DigitSeq[(n % 10) + 1]>>
FourDigits(n) ==
    <<DigitSeq[(n \div 1000) + 1], " ", " ", " ", DigitSeq[((n \div 100) % 10) + 1], " ", " ", " ",
      DigitSeq[((n \div 10) % 10) + 1], " ", " ", " ", DigitSeq[(n % 10) + 1]>>

\* C10: for every parsed date, on every date path, the day and the month
\* are rendered as 2 zero-padded digits joined by 2 spaces (length 4) and
\* the year as 4 digits joined by 3 spaces (length 13), on the A7 path as
\* on the range paths.
C10_DatesRenderedAsDigits ==
    pc = "done" =>
        \A p \in DatePaths :
            (p[1] \o "_year") \in DOMAIN df =>
                \A r \in LoadedRows :
                    df[p[2]][r] # NaT =>
                        /\ df[p[1] \o "_day"][r] = TwoDigits(df[p[2]][r].day)
                        /\ df[p[1] \o "_month"][r] = TwoDigits(df[p[2]][r].month)
                        /\ df[p[1] \o "_year"][r] = FourDigits(df[p[2]][r].year)

====
